---- MODULE Spec2Model ----
(***************************************************************************)
(* ascii-love: a rotating ASCII heart.  The module models                  *)
(*   - the stepped float range FloatRangeIter of src/lib.rs and the copy   *)
(*     of it in src/main.rs (specification RangeSpec),                     *)
(*   - the two cyclic angle generators of animate (CycleSpec),             *)
(*   - render_frame: projection, depth test, luminance (RenderSpec),       *)
(*   - main, the signal thread and the shared atomics (Program,            *)
(*     FairProgram).                                                       *)
(*                                                                         *)
(* Numbers.  f64 values are modelled as integers in a binary floating      *)
(* point format with Prec significant bits (f64 has 53) and rounding to    *)
(* nearest, ties to even, applied after every arithmetic operation as the  *)
(* hardware does.  Angles are in units of 0.01 rad, so 2*PI is 628, PI is  *)
(* 314 and the steps 0.05, 0.04, 0.02 are 5, 4, 2.                         *)
(***************************************************************************)
EXTENDS Integers, Sequences, FiniteSets, TLC

VARIABLES
    rng,         \* RangeSpec: the FloatRangeIter under test
    impl,        \* RangeSpec: "lib" (src/lib.rs) or "main" (src/main.rs)
    produced,    \* RangeSpec: the values next has returned, in order
    rstate,      \* RangeSpec: "running", "done" (None returned), "panicked"
    nones        \* RangeSpec: calls that returned None

rangeVars == <<rng, impl, produced, rstate, nones>>

VARIABLES
    a_iter,      \* CycleSpec: animate's a_iter, a Cycle<FloatRangeIter>
    b_iter,      \* CycleSpec: animate's b_iter
    a,           \* CycleSpec: what a_iter.next() returned last
    b,           \* CycleSpec: what b_iter.next() returned last
    a_first,     \* CycleSpec: the first value a_iter produced
    b_first,     \* CycleSpec: the first value b_iter produced
    a_wrapped,   \* CycleSpec: the last call of a_iter.next() restarted the pass
    b_wrapped,   \* CycleSpec: the last call of b_iter.next() restarted the pass
    cstate       \* CycleSpec: "running", or "panicked" once an unwrap failed

cycleVars == <<a_iter, b_iter, a, b, a_first, b_first, a_wrapped, b_wrapped, cstate>>

VARIABLES
    surface,        \* RenderSpec: the values of the trigonometric surface met so far
    fa,             \* RenderSpec: render_frame's argument a
    fb,             \* RenderSpec: render_frame's argument b
    screen_width,   \* RenderSpec: the width render_frame loaded
    screen_height,  \* RenderSpec: the height render_frame loaded
    output,         \* RenderSpec: the frame buffer, output[yp][xp]
    zbuffer,        \* RenderSpec: the depth buffer, zbuffer[yp][xp]
    u_iter,         \* RenderSpec: the range of the outer loop
    v_iter,         \* RenderSpec: the range of the inner loop
    u,              \* RenderSpec: the outer loop's variable
    rpc,            \* RenderSpec: "idle", "sampling", "emitted", "panicked"
    last,           \* RenderSpec: the sample the loop body ran on last
    hist,           \* RenderSpec: this frame's samples that passed the screen test
    first,          \* RenderSpec: the first frame emitted, with its inputs
    later           \* RenderSpec: the frame in hand is not the first one

loopVars == <<screen_width, screen_height, u_iter, v_iter, u>>

bufferVars == <<surface, fa, fb, output, zbuffer, rpc, last, hist, first, later>>

renderVars == <<loopVars, bufferVars>>

VARIABLES
    SCREEN_WIDTH,   \* Program: the atomic SCREEN_WIDTH
    SCREEN_HEIGHT,  \* Program: the atomic SCREEN_HEIGHT
    SHOULD_PLAY,    \* Program: the atomic SHOULD_PLAY
    term,           \* Program: the size of the terminal, as the kernel knows it
    pending,        \* Program: the signals delivered and not yet iterated
    resizes,        \* Program: the resizes of the terminal so far
    closed,         \* Program: handle.close() was called
    pc,             \* Program: where the main thread and the signal thread are
    local_dims,     \* Program: (width, height) in update_screen_dimensions, per thread
    cursor,         \* Program: "shown" or "hidden"
    reported,       \* Program: the pairs term_size::dimensions() has returned
    stop_at,        \* Program: where the main thread was when SHOULD_PLAY was cleared
    emitted_after_stop  \* Program: a frame was emitted after SHOULD_PLAY was cleared

dimAtomics == <<SCREEN_WIDTH, SCREEN_HEIGHT>>

envVars == <<term, pending, resizes>>

stopVars == <<SHOULD_PLAY, stop_at, emitted_after_stop>>

progVars == <<dimAtomics, envVars, stopVars, closed, pc, local_dims, cursor, reported>>

vars == <<rangeVars, cycleVars, renderVars, progVars>>

----------------------------------------------------------------------------
(* Bounds of the model *)

Prec == 10
MaxSpan == 5
MaxStep == 3
MaxNones == 2
MaxWidth == 2
MaxHeight == 1
LumaScale == 10
CoarseStepU == 200
CoarseStepV == 150
MaxResizes == 1

----------------------------------------------------------------------------
(* f64 arithmetic at Prec significant bits *)

\* 2^k, and 1 for a negative k
Pow2(k) == IF k <= 0 THEN 1 ELSE 2 ^ k

\* the number of significant bits of n >= 0
Bits(n) == CHOOSE k \in 0 .. 30 : n < 2 ^ k /\ (k = 0 \/ 2 ^ (k - 1) <= n)

Abs(x) == IF x < 0 THEN -x ELSE x

\* n/d (n >= 0, d > 0) rounded to the nearest integer, ties to even
RoundHalfEven(n, d) ==
    LET f == n \div d
        r == n % d
    IN  IF 2 * r < d THEN f
        ELSE IF 2 * r > d THEN f + 1
        ELSE IF f % 2 = 0 THEN f ELSE f + 1

\* an integer rounded to the nearest representable value
Round(x) ==
    LET m == Abs(x)
        g == Pow2(Bits(m) - Prec)
        r == RoundHalfEven(m, g) * g
    IN  IF x < 0 THEN -r ELSE r

FAdd(x, y) == Round(x + y)
FSub(x, y) == Round(x - y)
FMul(x, y) == Round(x * y)

\* (n / d) as i64 for n >= 0, d > 0: the quotient is rounded to Prec
\* significant bits, then truncated toward zero by the cast
FDivAsI64(n, d) ==
    LET q == n \div d
    IN  IF q >= Pow2(Prec - 1)
        THEN LET g == Pow2(Bits(q) - Prec) IN RoundHalfEven(n, d * g) * g
        ELSE IF q >= 1
        THEN LET k == Pow2(Prec - Bits(q)) IN RoundHalfEven(n * k, d) \div k
        ELSE IF n > 0 /\ (d - n) * Pow2(Prec + 1) <= d THEN 1 ELSE 0

Representable(x) == Round(x) = x

----------------------------------------------------------------------------
(* FloatRangeIter *)

\* (start..end).by(step)
By(start, end, step) ==
    [start |-> start, end |-> end, step |-> step, current |-> 0,
     size |-> FDivAsI64(FSub(end, start), step)]

Value(it, cur) == FAdd(it.start, FMul(it.step, Round(cur)))

AssertsHold(it, value) == value >= it.start /\ value < it.end

None == [tag |-> "None"]
Panic == [tag |-> "Panic"]
Some(v) == [tag |-> "Some", value |-> v]

\* src/lib.rs: test, compute, assert, then advance
LibNext(it) ==
    IF it.current < it.size
    THEN LET value == Value(it, it.current)
         IN  IF AssertsHold(it, value)
             THEN [iter |-> [it EXCEPT !.current = it.current + 1], out |-> Some(value)]
             ELSE [iter |-> it, out |-> Panic]
    ELSE [iter |-> it, out |-> None]

\* src/main.rs: advance first, then test, compute, assert
MainNext(it) ==
    LET adv == [it EXCEPT !.current = it.current + 1]
    IN  IF adv.current < adv.size
        THEN LET value == Value(adv, adv.current)
             IN  IF AssertsHold(adv, value)
                 THEN [iter |-> adv, out |-> Some(value)]
                 ELSE [iter |-> adv, out |-> Panic]
        ELSE [iter |-> adv, out |-> None]

IterNext(which, it) == IF which = "lib" THEN LibNext(it) ELSE MainNext(it)

----------------------------------------------------------------------------
(* RangeSpec: one range, of either implementation, consumed with next *)

RangeStarts == {-Pow2(Prec + 1), -3, 0, 1, Pow2(Prec)}

RangeInputs ==
    {t \in RangeStarts \X (1 .. MaxSpan) \X (1 .. MaxStep) :
        Representable(t[1] + t[2])}

RangeInit ==
    /\ impl \in {"lib", "main"}
    /\ \E t \in RangeInputs : rng = By(t[1], t[1] + t[2], t[3])
    /\ produced = <<>>
    /\ rstate = "running"
    /\ nones = 0

RangeIdle ==
    /\ impl = "main"
    /\ rng = By(0, 1, 1)
    /\ produced = <<>>
    /\ rstate = "running"
    /\ nones = 0

\* one call of next by the consumer
RangeNext ==
    /\ rstate # "panicked"
    /\ nones < MaxNones
    /\ LET r == IterNext(impl, rng)
       IN  /\ rng' = r.iter
           /\ produced' = IF r.out.tag = "Some"
                          THEN Append(produced, r.out.value) ELSE produced
           /\ rstate' = CASE r.out.tag = "Some" -> rstate
                          [] r.out.tag = "None" -> "done"
                          [] OTHER -> "panicked"
           /\ nones' = IF r.out.tag = "None" THEN nones + 1 ELSE nones
    /\ UNCHANGED impl
    /\ UNCHANGED <<cycleVars, renderVars, progVars>>

RangeSpecNext == RangeNext

\* the sequence the contract promises: start + step * i for i < length
Length(it) == FDivAsI64(FSub(it.end, it.start), it.step)
Expected(it) == [i \in 1 .. Length(it) |-> Value(it, i - 1)]

IsPrefix(s, t) == Len(s) <= Len(t) /\ \A i \in 1 .. Len(s) : s[i] = t[i]

\* C1: consumed until None, a stepped range yields exactly
\* start + step * i for i = 0 .. length-1 (stated for every range of both
\* implementations; src/main.rs skips the first value)
C1_ProducesContractSequence ==
    /\ IsPrefix(produced, Expected(rng))
    /\ rstate = "done" => produced = Expected(rng)

\* C2: neither assertion of next ever fails
C2_AssertionsNeverFail == rstate # "panicked"

----------------------------------------------------------------------------
(* CycleSpec: the two cyclic angle generators of animate *)

TwoPi == 628
StepA == 5
StepB == 4

\* Iterator::cycle(): keep a pristine clone to restart from
Cycle(it) == [orig |-> it, iter |-> it]

\* a broken generator: the pass is never restarted
CycleNextOnePass(c) ==
    LET r == MainNext(c.iter)
    IN  [cyc |-> [c EXCEPT !.iter = r.iter], out |-> r.out, wrapped |-> FALSE]

\* Cycle::next: when the pass is exhausted, clone the original and go on
CycleNext(c) ==
    LET r == MainNext(c.iter)
    IN  IF r.out.tag = "None"
        THEN LET again == MainNext(c.orig)
             IN  [cyc |-> [c EXCEPT !.iter = again.iter], out |-> again.out,
                  wrapped |-> TRUE]
        ELSE [cyc |-> [c EXCEPT !.iter = r.iter], out |-> r.out, wrapped |-> FALSE]

CycleInit ==
    /\ a_iter = Cycle(By(0, TwoPi, StepA))
    /\ b_iter = Cycle(By(0, TwoPi, StepB))
    /\ a = None
    /\ b = None
    /\ a_first = None
    /\ b_first = None
    /\ a_wrapped = FALSE
    /\ b_wrapped = FALSE
    /\ cstate = "running"

\* the head of one iteration of animate's loop:
\* a = a_iter.next().unwrap(); b = b_iter.next().unwrap()
AnimateAngles ==
    /\ cstate = "running"
    /\ LET ra == CycleNext(a_iter)
           rb == CycleNext(b_iter)
       IN  /\ a_iter' = ra.cyc
           /\ a' = ra.out
           /\ a_wrapped' = ra.wrapped
           /\ a_first' = IF a_first = None THEN ra.out ELSE a_first
           /\ IF ra.out.tag = "Some"
              THEN /\ b_iter' = rb.cyc
                   /\ b' = rb.out
                   /\ b_wrapped' = rb.wrapped
                   /\ b_first' = IF b_first = None THEN rb.out ELSE b_first
                   /\ cstate' = IF rb.out.tag = "Some" THEN "running" ELSE "panicked"
              ELSE /\ UNCHANGED <<b_iter, b, b_wrapped, b_first>>
                   /\ cstate' = "panicked"
    /\ UNCHANGED <<rangeVars, renderVars, progVars>>

CycleSpecNext == AnimateAngles

\* C3: a cyclic angle generator that has finished a pass produces its
\* first value again, and neither unwrap in animate ever fails
C3_CycleRestartsForever ==
    /\ cstate = "running"
    /\ a_first # None => a.tag = "Some" /\ b.tag = "Some"
    /\ a_wrapped => a = a_first
    /\ b_wrapped => b = b_first
    /\ a_iter.iter.current = 1 /\ a_first # None => a = a_first
    /\ b_iter.iter.current = 1 /\ b_first # None => b = b_first

\* both generators have just finished a pass and restarted
C3_Witness ==
    /\ a_wrapped /\ b_wrapped
    /\ a = a_first /\ b = b_first
    /\ a.tag = "Some" /\ b.tag = "Some"

----------------------------------------------------------------------------
(* RenderSpec: render_frame *)

LUMINANCE == <<".", ",", "-", "~", ":", ";", "=", "!", "*", "#", "$", "@">>

Pi == 314
NegInf == -1

\* A sample of the surface: what the trigonometric part of the loop body
\* yields for one (a, b, u, v).  sx is x_rot * ooz and sy is y_rot * ooz in
\* quarters, ooz is the depth key (positive), luma is in units of
\* 1 / LumaScale.  The model does not compute sines: the surface is a fixed
\* function of (a, b, u, v) whose values are drawn from SampleSet when a
\* point is first met and kept from then on.
SampleSet ==
    { [sx |->  1, sy |->  1, ooz |-> 1, luma |-> -LumaScale],
      [sx |->  1, sy |->  1, ooz |-> 2, luma |->  LumaScale],
      [sx |->  1, sy |->  1, ooz |-> 2, luma |->  0],
      [sx |-> -3, sy |->  1, ooz |-> 3, luma |->  LumaScale + 2],
      [sx |->  3, sy |-> -3, ooz |-> 1, luma |->  5] }

AnglePairs == {<<StepA, StepB>>, <<2 * StepA, 2 * StepB>>}

NoSample == [tag |-> "NoSample"]
NoFrame == [tag |-> "NoFrame"]
NoIter == [tag |-> "NoIter"]

\* width / 2.0 + x_rot * ooz * width, in quarters
ProjectX(width, sx) == 2 * width + sx * width

\* height / 2.0 - y_rot * ooz * height, in quarters
ProjectY(height, sy) == 2 * height - sy * height

\* `as usize` of a float given in quarters: truncation toward zero,
\* saturating at 0 for a negative value
AsUsize(q) == IF q < 0 THEN 0 ELSE q \div 4

\* n / d truncated toward zero (`as i32`)
TruncDiv(n, d) == IF n >= 0 THEN n \div d ELSE -((-n) \div d)

Clamp(x, lo, hi) == IF x < lo THEN lo ELSE IF x > hi THEN hi ELSE x

\* ((luma + 1.0) * 5.5) as i32
LuminanceIndexRounding(luma) ==
    LET n == (luma + LumaScale) * 55
        d == 10 * LumaScale
    IN  IF n >= 0 THEN (2 * n + d) \div (2 * d) ELSE -((2 * (-n) + d) \div (2 * d))

LuminanceIndex(luma) == TruncDiv((luma + LumaScale) * 55, 10 * LumaScale)

\* LUMINANCE[luminance_index.clamp(0, n_lumas as i32) as usize]
LuminanceChar(luminance_index) ==
    LET n_lumas == Len(LUMINANCE) - 1
    IN  LUMINANCE[Clamp(luminance_index, 0, n_lumas) + 1]

VisibleOrEqual(ooz, depth) == ooz >= depth

\* ooz > zbuffer[yp][xp]
Visible(ooz, depth) == ooz > depth

NewBuffersKeepingOld(width, height) ==
    IF /\ DOMAIN output = 0 .. (height - 1)
       /\ \A y \in DOMAIN output : DOMAIN output[y] = 0 .. (width - 1)
    THEN [output |-> output, zbuffer |-> zbuffer]
    ELSE [output |-> [y \in 0 .. (height - 1) |-> [x \in 0 .. (width - 1) |-> " "]],
          zbuffer |-> [y \in 0 .. (height - 1) |-> [x \in 0 .. (width - 1) |-> NegInf]]]

\* vec![vec![' '; screen_width]; screen_height] and
\* vec![vec![-f64::INFINITY; screen_width]; screen_height]
NewBuffers(width, height) ==
    [output |-> [y \in 0 .. (height - 1) |-> [x \in 0 .. (width - 1) |-> " "]],
     zbuffer |-> [y \in 0 .. (height - 1) |-> [x \in 0 .. (width - 1) |-> NegInf]]]

\* (0.0..2.0 * PI).by(0.02), the range of the outer loop, coarsened
OuterRange == By(0, TwoPi, CoarseStepU)

\* (0.0..PI).by(0.02), the range of the inner loop, coarsened
InnerRange == By(0, Pi, CoarseStepV)

\* next, tabulated over the positions of the two ranges: the result of a
\* call made with current = c
OuterNext == [c \in 0 .. OuterRange.size |-> MainNext([OuterRange EXCEPT !.current = c])]

InnerNext == [c \in 0 .. InnerRange.size |-> MainNext([InnerRange EXCEPT !.current = c])]

\* for u in (0.0..2.0 * PI).by(0.02) { for v in (0.0..PI).by(0.02) { .. } }:
\* the next (u, v) of the nested loops, or the end of the outer loop.  When the inner range
\* is exhausted the outer one is advanced and a fresh inner range started;
\* every fresh inner range is the same, so if it yields nothing the outer
\* loop runs dry without another sample.
Advance(ui, vi, uu) ==
    LET rv == IF vi = NoIter THEN [iter |-> vi, out |-> None] ELSE InnerNext[vi.current]
        ru == OuterNext[ui.current]
        fresh == InnerNext[0]
    IN  IF rv.out.tag = "Some"
        THEN [end |-> FALSE, u_iter |-> ui, v_iter |-> rv.iter, u |-> uu,
              v |-> rv.out.value]
        ELSE IF ru.out.tag = "Some" /\ fresh.out.tag = "Some"
        THEN [end |-> FALSE, u_iter |-> ru.iter, v_iter |-> fresh.iter,
              u |-> ru.out.value, v |-> fresh.out.value]
        ELSE IF ru.out.tag = "Some"
        THEN [end |-> TRUE, u_iter |-> [ru.iter EXCEPT !.current = ru.iter.size],
              v_iter |-> fresh.iter, u |-> uu, v |-> 0]
        ELSE [end |-> TRUE, u_iter |-> ru.iter, v_iter |-> rv.iter, u |-> uu,
              v |-> 0]

RenderIdle ==
    /\ surface = <<>>
    /\ fa = 0
    /\ fb = 0
    /\ screen_width = 0
    /\ screen_height = 0
    /\ output = <<>>
    /\ zbuffer = <<>>
    /\ u_iter = NoIter
    /\ v_iter = NoIter
    /\ u = 0
    /\ rpc = "idle"
    /\ last = NoSample
    /\ hist = <<>>
    /\ first = NoFrame
    /\ later = FALSE

\* render_frame(a, b) up to the loops: load the dimensions, allocate the
\* buffers
StartFrame ==
    /\ rpc \in {"idle", "emitted"}
    /\ \E ab \in AnglePairs, w \in 0 .. MaxWidth, h \in 0 .. MaxHeight :
        /\ fa' = ab[1]
        /\ fb' = ab[2]
        /\ screen_width' = w
        /\ screen_height' = h
        /\ \E bufs \in {NewBuffers(w, h)} :
            /\ output' = bufs.output
            /\ zbuffer' = bufs.zbuffer
    /\ u_iter' = OuterRange
    /\ v_iter' = NoIter
    /\ u' = 0
    /\ rpc' = "sampling"
    /\ last' = NoSample
    /\ hist' = <<>>
    /\ later' = (first # NoFrame)
    /\ UNCHANGED <<surface, first>>
    /\ UNCHANGED <<rangeVars, cycleVars, progVars>>

\* one run of the loop body on the next (u, v)
ProcessSample ==
    /\ rpc = "sampling"
    /\ \E nxt \in {Advance(u_iter, v_iter, u)} :
       \E key \in {<<fa, fb, nxt.u, nxt.v>>} :
           /\ ~nxt.end
           /\ u_iter' = nxt.u_iter
           /\ v_iter' = nxt.v_iter
           /\ u' = nxt.u
           /\ \E s \in SampleSet :
               /\ key \in DOMAIN surface => s = surface[key]
               /\ surface' = [k \in DOMAIN surface \cup {key} |->
                                 IF k = key THEN s ELSE surface[k]]
               /\ LET xq == ProjectX(screen_width, s.sx)
                      yq == ProjectY(screen_height, s.sy)
                      xp == AsUsize(xq)
                      yp == AsUsize(yq)
                      luminance_index == LuminanceIndex(s.luma)
                      within_screen == xp < screen_width /\ yp < screen_height
                      indexable == yp \in DOMAIN zbuffer /\ xp \in DOMAIN zbuffer[yp]
                  IN  IF ~indexable
                      THEN \* zbuffer[yp][xp] is out of range: the thread panics
                           /\ rpc' = "panicked"
                           /\ last' = [xq |-> xq, yq |-> yq, xp |-> xp, yp |-> yp,
                                       ooz |-> s.ooz, luma |-> s.luma,
                                       index |-> luminance_index,
                                       within |-> within_screen, depth |-> NegInf,
                                       drew |-> FALSE, fault |-> TRUE]
                           /\ UNCHANGED <<output, zbuffer, hist>>
                      ELSE LET visible == Visible(s.ooz, zbuffer[yp][xp])
                               draw == within_screen /\ visible
                           IN  /\ rpc' = "sampling"
                               /\ last' = [xq |-> xq, yq |-> yq, xp |-> xp, yp |-> yp,
                                           ooz |-> s.ooz, luma |-> s.luma,
                                           index |-> luminance_index,
                                           within |-> within_screen,
                                           depth |-> zbuffer[yp][xp],
                                           drew |-> draw, fault |-> FALSE]
                               /\ hist' = IF within_screen
                                          THEN Append(hist, [xp |-> xp, yp |-> yp,
                                                             ooz |-> s.ooz,
                                                             luma |-> s.luma])
                                          ELSE hist
                               /\ IF draw
                                  THEN /\ zbuffer' = [zbuffer EXCEPT ![yp][xp] = s.ooz]
                                       /\ output' = [output EXCEPT ![yp][xp] =
                                                        LuminanceChar(luminance_index)]
                                  ELSE UNCHANGED <<output, zbuffer>>
    /\ UNCHANGED <<fa, fb, screen_width, screen_height, first, later>>
    /\ UNCHANGED <<rangeVars, cycleVars, progVars>>

\* the loops are over: clear_screen and print the lines of output
EmitFrame ==
    /\ rpc = "sampling"
    /\ \E nxt \in {Advance(u_iter, v_iter, u)} :
        /\ nxt.end
        /\ u_iter' = nxt.u_iter
        /\ v_iter' = nxt.v_iter
    /\ rpc' = "emitted"
    /\ first' = IF first = NoFrame
                THEN [a |-> fa, b |-> fb, width |-> screen_width,
                      height |-> screen_height, grid |-> output]
                ELSE first
    /\ UNCHANGED <<surface, fa, fb, screen_width, screen_height, output, zbuffer,
                   u, last, hist, later>>
    /\ UNCHANGED <<rangeVars, cycleVars, progVars>>

RenderSpecNext == StartFrame \/ ProcessSample \/ EmitFrame

\* the samples of this frame that mapped to pixel (yp, xp), by position
MappedTo(yp, xp) == {i \in 1 .. Len(hist) : hist[i].yp = yp /\ hist[i].xp = xp}

MaxOoz(I) == CHOOSE m \in {hist[i].ooz : i \in I} : \A i \in I : hist[i].ooz <= m

Earliest(I) == CHOOSE i \in I : \A j \in I : i <= j

Blank(width, height) == [y \in 0 .. (height - 1) |-> [x \in 0 .. (width - 1) |-> " "]]

Unwritten(width, height) ==
    [y \in 0 .. (height - 1) |-> [x \in 0 .. (width - 1) |-> NegInf]]

\* C4: during a frame every pixel holds the maximum ooz of the in-screen
\* samples mapped to it so far and the character of the earliest sample
\* attaining that maximum, a pixel no sample mapped to is blank at depth
\* negative infinity, and a sample overwrites a pixel only with a strictly
\* larger ooz
C4_DepthTest ==
    /\ \A yp \in DOMAIN zbuffer : \A xp \in DOMAIN zbuffer[yp] :
        LET I == MappedTo(yp, xp)
        IN  IF I = {}
            THEN zbuffer[yp][xp] = NegInf /\ output[yp][xp] = " "
            ELSE LET top == {i \in I : hist[i].ooz = MaxOoz(I)}
                 IN  /\ zbuffer[yp][xp] = MaxOoz(I)
                     /\ output[yp][xp] =
                            LuminanceChar(LuminanceIndex(hist[Earliest(top)].luma))
    /\ last # NoSample /\ last.drew =>
        /\ last.ooz > last.depth
        /\ zbuffer[last.yp][last.xp] = last.ooz
    /\ last # NoSample /\ ~last.fault /\ ~last.drew /\ last.within =>
        /\ last.ooz <= last.depth
        /\ zbuffer[last.yp][last.xp] = last.depth

\* a finished frame in which two samples tied for the maximum of a pixel
\* under different characters, a third state of the pixel being blank
C4_Witness ==
    /\ rpc = "emitted"
    /\ \E yp \in DOMAIN zbuffer : \E xp \in DOMAIN zbuffer[yp] :
        \E i, j \in MappedTo(yp, xp) :
            /\ i < j
            /\ hist[i].ooz = hist[j].ooz
            /\ hist[i].ooz = zbuffer[yp][xp]
            /\ hist[i].luma # hist[j].luma
    /\ \E yp \in DOMAIN zbuffer : \E xp \in DOMAIN zbuffer[yp] :
        MappedTo(yp, xp) = {} /\ output[yp][xp] = " "

\* C5: no read or write of a buffer uses an index outside the screen: an
\* off-screen sample is discarded without a fault, whatever the screen size
C5_NoIndexFault == rpc # "panicked" /\ (last # NoSample => ~last.fault)

\* C6: a sample changes the buffers only if its projected coordinates are
\* within the screen, not negative before truncation, and its ooz exceeds
\* the stored depth
C6_OnlyOnScreenSamplesDraw ==
    last # NoSample /\ last.drew =>
        /\ last.xq >= 0 /\ last.yq >= 0
        /\ last.xp < screen_width /\ last.yp < screen_height
        /\ last.ooz > last.depth

Ramp == {LUMINANCE[i] : i \in 1 .. Len(LUMINANCE)}

\* C7: for luma in [-1, 1] the luminance index is trunc((luma + 1) * 5.5),
\* lies in [0, 11] and does not decrease with luma; -1 maps to '.', 1 to
\* '@'; every cell of the frame buffer is a space or a ramp character
C7_LuminanceIndex ==
    /\ \A l \in (-LumaScale) .. LumaScale :
        /\ LuminanceIndex(l) \in 0 .. 11
        /\ LuminanceIndex(l) = ((l + LumaScale) * 11) \div (2 * LumaScale)
    /\ \A l \in (-LumaScale) .. (LumaScale - 1) :
        LuminanceIndex(l) <= LuminanceIndex(l + 1)
    /\ LuminanceChar(LuminanceIndex(-LumaScale)) = "."
    /\ LuminanceChar(LuminanceIndex(LumaScale)) = "@"
    /\ \A yp \in DOMAIN output : \A xp \in DOMAIN output[yp] :
        output[yp][xp] \in Ramp \cup {" "}
    /\ last # NoSample /\ last.drew =>
        output[last.yp][last.xp] = LUMINANCE[Clamp(last.index, 0, 11) + 1]

\* a sample whose index had to be clamped was drawn as '@', and the frame
\* holds a character drawn for a luma of exactly 1 or -1
C7_Witness ==
    /\ last # NoSample /\ last.drew
    /\ last.index > 11
    /\ output[last.yp][last.xp] = "@"
    /\ \E i \in 1 .. Len(hist) : hist[i].luma \in {-LumaScale, LumaScale}

\* C10: a frame rendered with the inputs of the first frame shows the same
\* grid, and every frame starts from blank buffers of the loaded dimensions
C10_FrameDeterminism ==
    /\ DOMAIN output = 0 .. (screen_height - 1)
    /\ DOMAIN zbuffer = 0 .. (screen_height - 1)
    /\ \A yp \in DOMAIN output :
        /\ DOMAIN output[yp] = 0 .. (screen_width - 1)
        /\ DOMAIN zbuffer[yp] = 0 .. (screen_width - 1)
    /\ rpc = "sampling" /\ last = NoSample =>
        /\ output = Blank(screen_width, screen_height)
        /\ zbuffer = Unwritten(screen_width, screen_height)
    /\ (/\ rpc = "emitted"
        /\ first # NoFrame
        /\ first.a = fa /\ first.b = fb
        /\ first.width = screen_width /\ first.height = screen_height)
       => output = first.grid

\* a later frame with the first frame's inputs came out the same, with
\* something drawn in it
C10_Witness ==
    /\ rpc = "emitted"
    /\ later
    /\ first # NoFrame
    /\ first.a = fa /\ first.b = fb
    /\ first.width = screen_width /\ first.height = screen_height
    /\ output = first.grid
    /\ output # Blank(screen_width, screen_height)

----------------------------------------------------------------------------
(* Program: main, the signal thread, the terminal and the user.  A frame   *)
(* is the walk of render_frame's loops; the angles a and b of a frame are  *)
(* CycleSpec's and what the loop body does to the buffers is RenderSpec's. *)
(* The terminal reports positive sizes.                                    *)

InitWidth == 150
InitHeight == 40

\* what term_size::dimensions() can report: Some((width, height)), or None
TermSizes == {<<80, 24>>, <<120, 30>>}
NoSize == <<0, 0>>

StopSignals == {"SIGINT", "SIGTERM"}

\* where update_screen_dimensions returns to
AfterUpdate(t) == IF t = "main" THEN "hide_cursor" ELSE "wait"

ProgramInit ==
    /\ SCREEN_WIDTH = InitWidth
    /\ SCREEN_HEIGHT = InitHeight
    /\ SHOULD_PLAY = TRUE
    /\ term \in TermSizes
    /\ pending = {}
    /\ resizes = 0
    /\ closed = FALSE
    /\ pc = [main |-> "update", signal |-> "wait"]
    /\ local_dims = [main |-> NoSize, signal |-> NoSize]
    /\ cursor = "shown"
    /\ reported = {}
    /\ stop_at = "never"
    /\ emitted_after_stop = FALSE

\* update_screen_dimensions:
\* let Some((width, height)) = term_size::dimensions() else { return }
UpdateRead(t) ==
    /\ pc[t] = "update"
    /\ \E r \in {term, NoSize} :
        IF r = NoSize
        THEN /\ pc' = [pc EXCEPT ![t] = AfterUpdate(t)]
             /\ UNCHANGED <<local_dims, reported>>
        ELSE /\ pc' = [pc EXCEPT ![t] = "store_width"]
             /\ local_dims' = [local_dims EXCEPT ![t] = r]
             /\ reported' = reported \cup {r}
    /\ UNCHANGED <<dimAtomics, envVars, stopVars, closed, cursor>>
    /\ UNCHANGED <<rangeVars, cycleVars, renderVars>>

\* SCREEN_WIDTH.store(width, Ordering::Relaxed)
StoreWidth(t) ==
    /\ pc[t] = "store_width"
    /\ SCREEN_WIDTH' = local_dims[t][1]
    /\ pc' = [pc EXCEPT ![t] = "store_height"]
    /\ UNCHANGED <<SCREEN_HEIGHT, envVars, stopVars, closed, local_dims, cursor, reported>>
    /\ UNCHANGED <<rangeVars, cycleVars, renderVars>>

\* SCREEN_HEIGHT.store(height, Ordering::Relaxed)
StoreHeight(t) ==
    /\ pc[t] = "store_height"
    /\ SCREEN_HEIGHT' = local_dims[t][2]
    /\ pc' = [pc EXCEPT ![t] = AfterUpdate(t)]
    /\ UNCHANGED <<SCREEN_WIDTH, envVars, stopVars, closed, local_dims, cursor, reported>>
    /\ UNCHANGED <<rangeVars, cycleVars, renderVars>>

\* main: hide_cursor()
HideCursor ==
    /\ pc["main"] = "hide_cursor"
    /\ cursor' = "hidden"
    /\ pc' = [pc EXCEPT !["main"] = "loop"]
    /\ UNCHANGED <<dimAtomics, envVars, stopVars, closed, local_dims, reported>>
    /\ UNCHANGED <<rangeVars, cycleVars, renderVars>>

\* animate: while SHOULD_PLAY.load(Ordering::Relaxed) { .. }, the test
LoopCheck ==
    /\ pc["main"] = "loop"
    /\ pc' = [pc EXCEPT !["main"] =
                 IF SHOULD_PLAY THEN "load_width" ELSE "show_cursor"]
    /\ UNCHANGED <<dimAtomics, envVars, stopVars, closed, local_dims, cursor, reported>>
    /\ UNCHANGED <<rangeVars, cycleVars, renderVars>>

\* render_frame: let screen_width = SCREEN_WIDTH.load(Ordering::Relaxed)
LoadWidth ==
    /\ pc["main"] = "load_width"
    /\ screen_width' = SCREEN_WIDTH
    /\ pc' = [pc EXCEPT !["main"] = "load_height"]
    /\ UNCHANGED <<screen_height, u_iter, v_iter, u, bufferVars>>
    /\ UNCHANGED <<dimAtomics, envVars, stopVars, closed, local_dims, cursor, reported>>
    /\ UNCHANGED <<rangeVars, cycleVars>>

\* render_frame: let screen_height = SCREEN_HEIGHT.load(Ordering::Relaxed),
\* the buffers, and the start of the outer loop
LoadHeight ==
    /\ pc["main"] = "load_height"
    /\ screen_height' = SCREEN_HEIGHT
    /\ u_iter' = OuterRange
    /\ v_iter' = NoIter
    /\ u' = 0
    /\ pc' = [pc EXCEPT !["main"] = "render"]
    /\ UNCHANGED <<screen_width, bufferVars>>
    /\ UNCHANGED <<dimAtomics, envVars, stopVars, closed, local_dims, cursor, reported>>
    /\ UNCHANGED <<rangeVars, cycleVars>>

\* render_frame: the loop body on the next (u, v)
RenderSample ==
    /\ pc["main"] = "render"
    /\ \E nxt \in {Advance(u_iter, v_iter, u)} :
        /\ ~nxt.end
        /\ u_iter' = nxt.u_iter
        /\ v_iter' = nxt.v_iter
        /\ u' = nxt.u
    /\ UNCHANGED <<screen_width, screen_height, bufferVars>>
    /\ UNCHANGED progVars
    /\ UNCHANGED <<rangeVars, cycleVars>>

\* render_frame: the loops are over, print the frame
RenderEmit ==
    /\ pc["main"] = "render"
    /\ \E nxt \in {Advance(u_iter, v_iter, u)} :
        /\ nxt.end
        /\ u_iter' = nxt.u_iter
        /\ v_iter' = nxt.v_iter
    /\ pc' = [pc EXCEPT !["main"] = "sleep"]
    /\ emitted_after_stop' = (emitted_after_stop \/ ~SHOULD_PLAY)
    /\ UNCHANGED <<screen_width, screen_height, u, bufferVars>>
    /\ UNCHANGED <<dimAtomics, envVars, SHOULD_PLAY, stop_at, closed, local_dims,
                   cursor, reported>>
    /\ UNCHANGED <<rangeVars, cycleVars>>

\* animate: thread::sleep(pause), and back to the loop's test
Sleep ==
    /\ pc["main"] = "sleep"
    /\ pc' = [pc EXCEPT !["main"] = "loop"]
    /\ UNCHANGED <<dimAtomics, envVars, stopVars, closed, local_dims, cursor, reported>>
    /\ UNCHANGED <<rangeVars, cycleVars, renderVars>>

\* main: show_cursor()
ShowCursor ==
    /\ pc["main"] = "show_cursor"
    /\ cursor' = "shown"
    /\ pc' = [pc EXCEPT !["main"] = "close"]
    /\ UNCHANGED <<dimAtomics, envVars, stopVars, closed, local_dims, reported>>
    /\ UNCHANGED <<rangeVars, cycleVars, renderVars>>

\* main: handle.close()
CloseHandle ==
    /\ pc["main"] = "close"
    /\ closed' = TRUE
    /\ pc' = [pc EXCEPT !["main"] = "join"]
    /\ UNCHANGED <<dimAtomics, envVars, stopVars, local_dims, cursor, reported>>
    /\ UNCHANGED <<rangeVars, cycleVars, renderVars>>

\* main: thread.join().unwrap()
Join ==
    /\ pc["main"] = "join"
    /\ pc["signal"] = "exited"
    /\ pc' = [pc EXCEPT !["main"] = "done"]
    /\ UNCHANGED <<dimAtomics, envVars, stopVars, closed, local_dims, cursor, reported>>
    /\ UNCHANGED <<rangeVars, cycleVars, renderVars>>

\* a handler that forgets the store
stop_animation_without_store == UNCHANGED SHOULD_PLAY

\* SHOULD_PLAY.store(false, Ordering::Relaxed)
stop_animation == SHOULD_PLAY' = FALSE

\* signal thread: SIGTERM | SIGINT => stop_animation()
SignalStop ==
    /\ pc["signal"] = "wait"
    /\ ~closed
    /\ \E sig \in pending \cap StopSignals :
        pending' = pending \ {sig}
    /\ stop_animation
    /\ stop_at' = IF SHOULD_PLAY /\ ~SHOULD_PLAY' THEN pc["main"] ELSE stop_at
    /\ UNCHANGED <<dimAtomics, term, resizes, emitted_after_stop, closed, pc,
                   local_dims, cursor, reported>>
    /\ UNCHANGED <<rangeVars, cycleVars, renderVars>>

\* signal thread: SIGWINCH => update_screen_dimensions()
SignalWinch ==
    /\ pc["signal"] = "wait"
    /\ ~closed
    /\ "SIGWINCH" \in pending
    /\ pending' = pending \ {"SIGWINCH"}
    /\ pc' = [pc EXCEPT !["signal"] = "update"]
    /\ UNCHANGED <<dimAtomics, term, resizes, stopVars, closed, local_dims, cursor,
                   reported>>
    /\ UNCHANGED <<rangeVars, cycleVars, renderVars>>

\* signal thread: the iterator ends once the handle is closed
SignalExit ==
    /\ pc["signal"] = "wait"
    /\ closed
    /\ pc' = [pc EXCEPT !["signal"] = "exited"]
    /\ UNCHANGED <<dimAtomics, envVars, stopVars, closed, local_dims, cursor, reported>>
    /\ UNCHANGED <<rangeVars, cycleVars, renderVars>>

\* the terminal is resized: the kernel raises SIGWINCH
Resize ==
    /\ resizes < MaxResizes
    /\ ~closed
    /\ \E size \in TermSizes \ {term} : term' = size
    /\ pending' = pending \cup {"SIGWINCH"}
    /\ resizes' = resizes + 1
    /\ UNCHANGED <<dimAtomics, stopVars, closed, pc, local_dims, cursor, reported>>
    /\ UNCHANGED <<rangeVars, cycleVars, renderVars>>

\* the user interrupts or terminates the process
SendStop ==
    /\ ~closed
    /\ \E sig \in StopSignals \ pending : pending' = pending \cup {sig}
    /\ UNCHANGED <<dimAtomics, term, resizes, stopVars, closed, pc, local_dims,
                   cursor, reported>>
    /\ UNCHANGED <<rangeVars, cycleVars, renderVars>>

MainThread ==
    \/ UpdateRead("main") \/ StoreWidth("main") \/ StoreHeight("main")
    \/ HideCursor \/ LoopCheck \/ LoadWidth \/ LoadHeight
    \/ RenderSample \/ RenderEmit \/ Sleep
    \/ ShowCursor \/ CloseHandle \/ Join

SignalThread ==
    \/ SignalStop \/ SignalWinch \/ SignalExit
    \/ UpdateRead("signal") \/ StoreWidth("signal") \/ StoreHeight("signal")

ProgramNext == MainThread \/ SignalThread \/ Resize \/ SendStop

Updating(t) == pc[t] \in {"update", "store_width", "store_height"}

SinglePairs == {<<InitWidth, InitHeight>>} \cup reported

\* C8: the (width, height) a frame loads is the initial pair or the pair
\* of one single update, and so is the stored pair once all updates have
\* finished
C8_ConsistentSnapshot ==
    /\ pc["main"] = "render" => <<screen_width, screen_height>> \in SinglePairs
    /\ (/\ ~Updating("main")
        /\ ~Updating("signal")
        /\ "SIGWINCH" \notin pending)
       => <<SCREEN_WIDTH, SCREEN_HEIGHT>> \in SinglePairs

Exited == {"show_cursor", "close", "join", "done"}

Done ==
    /\ pc["main"] = "done"
    /\ pc["signal"] = "exited"
    /\ cursor = "shown"
    /\ closed

\* C9: SHOULD_PLAY, once false, stays false; a frame in progress runs
\* through all its samples and is emitted; the loop is left only at its
\* test, with the flag seen false, and never entered again; and under fair
\* scheduling a stop request leads to the exit of animate, the cursor
\* shown and the signal thread closed and joined
C9_StopAtTopOfNextFrame ==
    /\ [][~SHOULD_PLAY => ~SHOULD_PLAY']_vars
    /\ [][pc["main"] = "render" => pc'["main"] \in {"render", "sleep"}]_vars
    /\ [][pc["main"] = "render" /\ pc'["main"] = "sleep"
            => u_iter'.current >= u_iter'.size /\ v_iter'.current >= v_iter'.size]_vars
    /\ [][pc["main"] \notin Exited /\ pc'["main"] \in Exited
            => pc["main"] = "loop" /\ ~SHOULD_PLAY]_vars
    /\ [][pc["main"] = "loop" /\ ~SHOULD_PLAY => pc'["main"] \in {"loop", "show_cursor"}]_vars
    /\ [][pc["main"] \in Exited => pc'["main"] \in Exited]_vars
    /\ (pending \cap StopSignals # {}) ~> Done
    /\ (~SHOULD_PLAY) ~> Done

\* the flag was cleared while a frame was being rendered, that frame was
\* emitted, and the program has ended
C9_Witness ==
    /\ Done
    /\ ~SHOULD_PLAY
    /\ stop_at = "render"
    /\ emitted_after_stop

----------------------------------------------------------------------------
(* Specifications *)

ProgramIdle == ProgramInit /\ term = <<80, 24>>

RangeSpecInit == RangeInit /\ CycleInit /\ RenderIdle /\ ProgramIdle

RangeSpec == RangeSpecInit /\ [][RangeSpecNext]_vars

CycleSpecInit == RangeIdle /\ CycleInit /\ RenderIdle /\ ProgramIdle

CycleSpec == CycleSpecInit /\ [][CycleSpecNext]_vars

RenderSpecInit == RangeIdle /\ CycleInit /\ RenderIdle /\ ProgramIdle

RenderSpec == RenderSpecInit /\ [][RenderSpecNext]_vars

ProgramSpecInit == RangeIdle /\ CycleInit /\ RenderIdle /\ ProgramInit

Program == ProgramSpecInit /\ [][ProgramNext]_vars

FairProgram == Program /\ WF_vars(MainThread) /\ WF_vars(SignalThread)

====
